---- MODULE Spec2Model ----
(***************************************************************************)
(* Model of scripts/gen-third-party-notices.py: the notice aggregator that *)
(* reads Package.resolved, resolves checkout directories, looks up license *)
(* and notice files and writes THIRD-PARTY-NOTICES.md.                     *)
(*                                                                         *)
(* Python strings are sequences of one-character strings, so that lower(), *)
(* strip(), slicing, basename() and join() are computed, not assumed.      *)
(***************************************************************************)
EXTENDS Integers, Sequences, FiniteSets, TLC

\* ------------------------------------------------------------------------
\* Python values

\* Python's None: a one-element tuple that is no character sequence.
None == <<"None">>

\* The grave accent (code point 96), which a TLA+ string cannot hold.
Grave == "GRAVE"

Ascii ==
    <<" ","!","\"","#","$","%","&","'","(",")","*","+",",","-",".","/",
      "0","1","2","3","4","5","6","7","8","9",":",";","<","=",">","?","@",
      "A","B","C","D","E","F","G","H","I","J","K","L","M","N","O","P","Q",
      "R","S","T","U","V","W","X","Y","Z","[","\\","]","^","_",Grave,
      "a","b","c","d","e","f","g","h","i","j","k","l","m","n","o","p","q",
      "r","s","t","u","v","w","x","y","z","{","|","}","~">>

\* Position of a printable character in Ascii (code point minus 31);
\* control characters (newline, tab) sort before every printable one.
OrdTable == [c \in {Ascii[i] : i \in DOMAIN Ascii} |-> CHOOSE i \in DOMAIN Ascii : Ascii[i] = c]

Ord(c) == IF c \in DOMAIN OrdTable THEN OrdTable[c] ELSE 0

\* str.lower() on one character: "a".."z" follow "A".."Z" at a fixed distance.
LowerTable ==
    [c \in DOMAIN OrdTable |->
        IF OrdTable[c] >= OrdTable["A"] /\ OrdTable[c] <= OrdTable["Z"]
        THEN Ascii[OrdTable[c] + (OrdTable["a"] - OrdTable["A"])]
        ELSE c]

LowerChar(c) == IF c \in DOMAIN LowerTable THEN LowerTable[c] ELSE c

\* str.lower()
lower(s) == [i \in 1..Len(s) |-> LowerChar(s[i])]

\* Python's str < str: lexicographic on code points, a proper prefix is less.
StrLess(a, b) ==
    \E i \in 1..Len(b) :
        /\ \A j \in 1..(i - 1) : j <= Len(a) /\ a[j] = b[j]
        /\ \/ i = Len(a) + 1
           \/ i <= Len(a) /\ Ord(a[i]) < Ord(b[i])

Whitespace == {" ", "\t", "\n", "\r"}

\* Index of the first character of s at or after i that is not in chars.
RECURSIVE SkipForward(_, _, _)
SkipForward(s, i, chars) ==
    IF i > Len(s) \/ s[i] \notin chars THEN i ELSE SkipForward(s, i + 1, chars)

\* Index of the last character of s at or before i that is not in chars.
RECURSIVE SkipBackward(_, _, _)
SkipBackward(s, i, chars) ==
    IF i < 1 \/ s[i] \notin chars THEN i ELSE SkipBackward(s, i - 1, chars)

\* str.strip(): drop leading and trailing whitespace.
strip(s) == SubSeq(s, SkipForward(s, 1, Whitespace), SkipBackward(s, Len(s), Whitespace))

\* str.rstrip("/")
rstrip_slash(s) == SubSeq(s, 1, SkipBackward(s, Len(s), {"/"}))

\* os.path.basename(): what follows the last "/".
basename(p) ==
    LET slashes == {i \in 1..Len(p) : p[i] = "/"}
    IN  IF slashes = {} THEN p
        ELSE SubSeq(p, (CHOOSE i \in slashes : \A j \in slashes : i >= j) + 1, Len(p))

\* str.endswith(suffix)
endswith(s, suffix) ==
    /\ Len(s) >= Len(suffix)
    /\ SubSeq(s, Len(s) - Len(suffix) + 1, Len(s)) = suffix

\* str.startswith(prefix)
startswith(s, prefix) ==
    /\ Len(s) >= Len(prefix)
    /\ SubSeq(s, 1, Len(prefix)) = prefix

\* s[:n]
Prefix(s, n) == SubSeq(s, 1, IF Len(s) < n THEN Len(s) ELSE n)

\* sep.join(parts)
RECURSIVE join(_, _)
join(sep, parts) ==
    IF Len(parts) = 0 THEN <<>>
    ELSE IF Len(parts) = 1 THEN parts[1]
    ELSE parts[1] \o sep \o join(sep, Tail(parts))

\* os.path.join(a, b) for a relative b
path_join(a, b) == a \o <<"/">> \o b

\* A JSON object is a record over its possible keys; an absent key holds None.
\* key in d
In(key, d) == d[key] # None

\* dict.get(key, default)
Get(d, key, default) == IF In(key, d) THEN d[key] ELSE default

\* The empty state object {}
EmptyState == [version |-> None, branch |-> None, revision |-> None]

\* x or y, on strings and None
Or(x, y) == IF x = None \/ x = <<>> THEN y ELSE x

\* ------------------------------------------------------------------------
\* Literals of the script

sUnknown == <<"u","n","k","n","o","w","n">>
sLocal == <<"l","o","c","a","l">>
sDotGit == <<".","g","i","t">>
sSwiftTerm == <<"S","w","i","f","t","T","e","r","m">>
sSwiftTermUrl ==
    <<"h","t","t","p","s",":","/","/","g","i","t","h","u","b",".","c","o","m","/",
      "m","i","g","u","e","l","d","e","i","c","a","z","a","/",
      "S","w","i","f","t","T","e","r","m">>
sCheckouts == <<".","b","u","i","l","d","/","c","h","e","c","k","o","u","t","s">>

LICENSE_FILES ==
    << <<"L","I","C","E","N","S","E">>,
       <<"L","I","C","E","N","S","E",".","t","x","t">>,
       <<"L","I","C","E","N","S","E",".","m","d">>,
       <<"C","O","P","Y","I","N","G">>,
       <<"C","O","P","Y","I","N","G",".","t","x","t">>,
       <<"C","O","P","Y","I","N","G",".","m","d">>,
       <<"L","I","C","E","N","C","E">>,
       <<"L","I","C","E","N","C","E",".","t","x","t">>,
       <<"L","I","C","E","N","C","E",".","m","d">> >>

NOTICE_FILES ==
    << <<"N","O","T","I","C","E">>,
       <<"N","O","T","I","C","E",".","t","x","t">>,
       <<"N","O","T","I","C","E",".","m","d">> >>

sTitle == <<"T","h","i","r","d","-","P","a","r","t","y"," ","N","o","t","i","c","e","s">>
sPreamble ==
    <<"T","h","i","s"," ","d","o","c","u","m","e","n","t"," ","l","i","s","t","s"," ","t","h","i",
      "r","d","-","p","a","r","t","y"," ","c","o","m","p","o","n","e","n","t","s"," ","i","n",
      "c","l","u","d","e","d"," ","i","n"," ","C","o","d","M","a","t","e"," ","d","i","s","t",
      "r","i","b","u","t","i","o","n","s",","," ","a","l","o","n","g"," ","w","i","t","h"," ",
      "t","h","e","i","r"," ","l","i","c","e","n","s","e","s"," ","a","n","d"," ","a","t","t",
      "r","i","b","u","t","i","o","n","s","."," ","T","h","e"," ","o","r","i","g","i","n","a",
      "l"," ","l","i","c","e","n","s","e"," ","t","e","x","t","s"," ","a","r","e"," ","r","e",
      "p","r","o","d","u","c","e","d"," ","o","r"," ","r","e","f","e","r","e","n","c","e","d",
      " ","b","e","l","o","w",".">>
sDistribute ==
    <<"I","f"," ","y","o","u"," ","d","i","s","t","r","i","b","u","t","e"," ","C","o","d","M","a",
      "t","e"," ","b","i","n","a","r","i","e","s",","," ","k","e","e","p"," ","t","h","i","s",
      " ","f","i","l","e"," ","t","o","g","e","t","h","e","r"," ","w","i","t","h"," ",Grave,"L",
      "I","C","E","N","S","E",Grave,".">>
sRule == <<"-","-","-">>
sSectionSep == <<"\n","\n","-","-","-","\n","\n">>
sRepository == <<"R","e","p","o","s","i","t","o","r","y",":"," ">>
sLicenseFile == <<"L","i","c","e","n","s","e"," ","f","i","l","e",":"," ">>
sNotFound == <<"N","O","T"," ","F","O","U","N","D">>
sNoticeOpen == <<"N","O","T","I","C","E"," ","(">>
NL == <<"\n">>

\* ------------------------------------------------------------------------
\* version_label(state), lines 69-78. The empty object and an absent state
\* are both falsy in "if not state": EmptyState stands for both.

\* Length of the abbreviated revision, state["revision"][:7]
ShortRevision == 7

\* version_label with the branch and revision taking priority over the version
version_label_BranchFirst(state) ==
    IF state = EmptyState THEN sUnknown
    ELSE IF In("branch", state) /\ In("revision", state)
         THEN state["branch"] \o <<"@">> \o Prefix(state["revision"], ShortRevision)
    ELSE IF In("version", state) THEN state["version"]
    ELSE IF In("revision", state) THEN Prefix(state["revision"], ShortRevision)
    ELSE sUnknown

version_label(state) ==
    IF state = EmptyState THEN sUnknown
    ELSE IF In("version", state) THEN state["version"]
    ELSE IF In("branch", state) /\ In("revision", state)
         THEN state["branch"] \o <<"@">> \o Prefix(state["revision"], ShortRevision)
    ELSE IF In("revision", state) THEN Prefix(state["revision"], ShortRevision)
    ELSE sUnknown

\* ------------------------------------------------------------------------
\* The environment of one run and the state of the run

VARIABLES
    env,            \* manifest, filesystem, git, I/O faults: fixed during a run
    pc,             \* position in main()
    pins,           \* result of load_pins()
    entries,        \* list built from the pins, plus the local dependency
    unique_entries, \* after deduplication, then sorted in place
    idx,            \* loop index of the loop at pc
    missing,        \* names without a license file
    sections,       \* rendered sections
    content,        \* rendered document, None before it is built
    output,         \* contents of THIRD-PARTY-NOTICES.md, None if absent
    exitStatus,     \* process exit status, -1 while running
    raised,         \* uncaught exception that ended the run, None if none
    stdio,          \* messages printed, in order
    effects,        \* kinds of external calls made after load_pins
    vlIn, vlOut     \* argument and result of a stand-alone version_label call

vars == <<env, pc, pins, entries, unique_entries, idx, missing, sections, content,
          output, exitStatus, raised, stdio, effects, vlIn, vlOut>>

\* -- filesystem ----------------------------------------------------------

\* env.fs maps each existing directory (relative to ROOT) to its file names.
isdir(path) == path \in DOMAIN env.fs

isfile(path) ==
    \E d \in DOMAIN env.fs : \E f \in env.fs[d] : path = path_join(d, f)

\* os.path.dirname()
dirname(p) ==
    LET slashes == {i \in 1..Len(p) : p[i] = "/"}
    IN  IF slashes = {} THEN <<>>
        ELSE SubSeq(p, 1, (CHOOSE i \in slashes : \A j \in slashes : i >= j) - 1)

\* Text of a file, by its name.
FileText(name) ==
    IF name = LICENSE_FILES[2] THEN <<" ","M","I","T","\n">>
    ELSE IF name = LICENSE_FILES[4] THEN <<"G","P","L","\n","\n","v","3">>
    ELSE IF name = NOTICE_FILES[2] THEN <<"N","\n">>
    ELSE IF name = NOTICE_FILES[3] THEN <<>>
    ELSE <<"M","I","T">>

\* open(path, "r") raises OSError for a file that cannot be read.
ReadRaises(path) == dirname(path) \in env.unreadable

read_file(path) == strip(FileText(basename(path)))

RECURSIVE pick_first_existing(_, _)
pick_first_existing(base_dir, names) ==
    IF names = <<>> THEN None
    ELSE IF isfile(path_join(base_dir, Head(names))) THEN path_join(base_dir, Head(names))
    ELSE pick_first_existing(base_dir, Tail(names))

\* -- git ------------------------------------------------------------------

\* env.git[cmd] is the stdout of the command, or None when subprocess.run
\* raises (git missing, non-zero exit status).
run_git(cmd) == IF env.git[cmd] = None THEN <<>> ELSE strip(env.git[cmd])

repo_url_for_path ==
    LET url == run_git("config") IN IF url # <<>> THEN url ELSE None

\* -- checkout directories -------------------------------------------------

CheckoutCandidates(identity, location) ==
    (IF identity # <<>> THEN <<path_join(sCheckouts, identity)>> ELSE <<>>)
    \o (IF location # <<>>
        THEN LET base == basename(rstrip_slash(location))
             IN  <<path_join(sCheckouts,
                             IF endswith(base, sDotGit)
                             THEN SubSeq(base, 1, Len(base) - Len(sDotGit))
                             ELSE base)>>
        ELSE <<>>)

RECURSIVE FirstDir(_)
FirstDir(candidates) ==
    IF candidates = <<>> THEN None
    ELSE IF isdir(Head(candidates)) THEN Head(candidates)
    ELSE FirstDir(Tail(candidates))

checkout_dir_for_pin(identity, location) ==
    FirstDir(CheckoutCandidates(identity, location))

\* -- load_pins(), lines 81-87 ----------------------------------------------

\* load_pins treating a missing manifest as one without pins
load_pins_AbsentIsEmpty ==
    IF env.manifest.kind = "invalid"
    THEN [outcome |-> "raise", pins |-> <<>>]
    ELSE [outcome |-> "return", pins |-> env.manifest.pins]

\* The outcome of load_pins(): sys.exit(1), an exception of json.load, or
\* the list under "pins".
load_pins ==
    IF env.manifest.kind = "absent"
    THEN [outcome |-> "exit", pins |-> <<>>]
    ELSE IF env.manifest.kind = "invalid"
    THEN [outcome |-> "raise", pins |-> <<>>]
    ELSE [outcome |-> "return", pins |-> env.manifest.pins]

LoadPins ==
    /\ pc = "load"
    /\ LET r == load_pins
       IN  /\ pins' = r.pins
           /\ pc' = IF r.outcome = "return" THEN "build" ELSE "done"
           /\ exitStatus' = IF r.outcome = "return" THEN exitStatus ELSE 1
           /\ raised' = IF r.outcome = "raise" THEN "JSONDecodeError" ELSE raised
           /\ stdio' = IF r.outcome = "exit"
                       THEN Append(stdio, "ERROR: Package.resolved not found.")
                       ELSE stdio
    /\ UNCHANGED <<env, entries, unique_entries, idx, missing, sections, content,
                   output, effects, vlIn, vlOut>>

\* -- main(), lines 94-105: one entry per pin ---------------------------------

\* pin["state"] is always a record here: an absent "state" key is EmptyState,
\* which is what pin.get("state", {}) makes of it.
EntryOfPin(pin) ==
    LET identity == Get(pin, "identity", <<>>)
        location == Get(pin, "location", <<>>)
    IN  [name |-> identity,
         repo |-> location,
         version |-> version_label(pin["state"]),
         path |-> checkout_dir_for_pin(identity, location)]

BuildEntry ==
    /\ pc = "build"
    /\ idx <= Len(pins)
    /\ entries' = Append(entries, EntryOfPin(pins[idx]))
    /\ idx' = idx + 1
    /\ effects' = IF CheckoutCandidates(Get(pins[idx], "identity", <<>>),
                                        Get(pins[idx], "location", <<>>)) # <<>>
                  THEN effects \cup {"isdir"} ELSE effects
    /\ UNCHANGED <<env, pc, pins, unique_entries, missing, sections, content,
                   output, exitStatus, raised, stdio, vlIn, vlOut>>

\* -- main(), lines 107-119: the local dependency ------------------------------

swiftterm_path == sSwiftTerm

\* The local entry without the fallback URL and the fallback versions
LocalEntry_NoFallback ==
    [name |-> sSwiftTerm,
     repo |-> repo_url_for_path,
     version |-> run_git("describe"),
     path |-> swiftterm_path]

LocalEntry ==
    [name |-> sSwiftTerm,
     repo |-> Or(repo_url_for_path, sSwiftTermUrl),
     version |-> Or(Or(run_git("describe"), run_git("rev_parse")), sLocal),
     path |-> swiftterm_path]

\* The entry put in front of the list instead of at its end
AppendEntry_Prepend(es, e) == <<e>> \o es

\* entries.append(e)
AppendEntry(es, e) == Append(es, e)

LocalDependency ==
    /\ pc = "build"
    /\ idx > Len(pins)
    /\ entries' = IF isdir(swiftterm_path) THEN AppendEntry(entries, LocalEntry) ELSE entries
    /\ effects' = effects \cup {"isdir"} \cup (IF isdir(swiftterm_path) THEN {"git"} ELSE {})
    /\ pc' = "dedup"
    /\ UNCHANGED <<env, pins, unique_entries, idx, missing, sections, content,
                   output, exitStatus, raised, stdio, vlIn, vlOut>>

\* -- main(), lines 121-131: deduplicate, then sort --------------------------

RECURSIVE DedupLoop(_, _, _)
DedupLoop(es, seen, acc) ==
    IF es = <<>> THEN acc
    ELSE LET key == lower(Head(es).name)
         IN  IF key \in seen
             THEN DedupLoop(Tail(es), seen, acc)
             ELSE DedupLoop(Tail(es), seen \cup {key}, Append(acc, Head(es)))

\* Deduplication keeping the last entry of each name: a later entry replaces
\* the one kept so far.
RECURSIVE DedupLoop_KeepLast(_, _)
DedupLoop_KeepLast(es, acc) ==
    IF es = <<>> THEN acc
    ELSE DedupLoop_KeepLast(
            Tail(es),
            IF \E i \in DOMAIN acc : lower(acc[i].name) = lower(Head(es).name)
            THEN [i \in DOMAIN acc |->
                    IF lower(acc[i].name) = lower(Head(es).name) THEN Head(es) ELSE acc[i]]
            ELSE Append(acc, Head(es)))

deduplicate_KeepLast(es) == DedupLoop_KeepLast(es, <<>>)

\* Deduplication on the name as written, without lower()
RECURSIVE DedupLoop_CaseSensitive(_, _, _)
DedupLoop_CaseSensitive(es, seen, acc) ==
    IF es = <<>> THEN acc
    ELSE IF Head(es).name \in seen
         THEN DedupLoop_CaseSensitive(Tail(es), seen, acc)
         ELSE DedupLoop_CaseSensitive(Tail(es), seen \cup {Head(es).name}, Append(acc, Head(es)))

deduplicate_CaseSensitive(es) == DedupLoop_CaseSensitive(es, {}, <<>>)

deduplicate(es) == DedupLoop(es, {}, <<>>)

Deduplicate ==
    /\ pc = "dedup"
    /\ unique_entries' = deduplicate(entries)
    /\ pc' = "sort"
    /\ UNCHANGED <<env, pins, entries, idx, missing, sections, content,
                   output, exitStatus, raised, stdio, effects, vlIn, vlOut>>

\* The sort key without lower()
SortKey_CaseSensitive(e) == e.name

SortKey(e) == lower(e.name)

\* list.sort(key=...) is stable: an element goes after the elements whose key
\* is not greater than its own.
RECURSIVE InsertSorted(_, _)
InsertSorted(sorted, e) ==
    IF sorted = <<>> THEN <<e>>
    ELSE IF StrLess(SortKey(e), SortKey(Head(sorted))) THEN <<e>> \o sorted
    ELSE <<Head(sorted)>> \o InsertSorted(Tail(sorted), e)

RECURSIVE SortLoop(_, _)
SortLoop(es, acc) ==
    IF es = <<>> THEN acc ELSE SortLoop(Tail(es), InsertSorted(acc, Head(es)))

sort_by_name(es) == SortLoop(es, <<>>)

Sort ==
    /\ pc = "sort"
    /\ unique_entries' = sort_by_name(unique_entries)
    /\ idx' = 1
    /\ pc' = "render"
    /\ UNCHANGED <<env, pins, entries, missing, sections, content,
                   output, exitStatus, raised, stdio, effects, vlIn, vlOut>>

\* -- main(), lines 135-163: one section per entry ----------------------------

DisplayName(e) == Or(e.name, sUnknown)

license_path_of(e) ==
    IF e.path # None /\ isdir(e.path) THEN pick_first_existing(e.path, LICENSE_FILES) ELSE None

notice_path_of(e) ==
    IF e.path # None /\ isdir(e.path) THEN pick_first_existing(e.path, NOTICE_FILES) ELSE None

\* Only an entry without a checkout directory counted as missing
AddMissing_OnlyUnresolved(m, e) == IF e.path = None THEN Append(m, DisplayName(e)) ELSE m

\* missing.append(name) when no license file was found
AddMissing(m, e) == IF license_path_of(e) = None THEN Append(m, DisplayName(e)) ELSE m

Header(e) ==
    << DisplayName(e) \o <<" ","(">> \o Or(e.version, sUnknown) \o <<")">>,
       sRepository \o Or(e.repo, sUnknown),
       IF license_path_of(e) # None
       THEN sLicenseFile \o basename(license_path_of(e))
       ELSE sLicenseFile \o sNotFound >>

Body(e) ==
    (IF license_path_of(e) # None THEN <<read_file(license_path_of(e))>> ELSE <<>>)
    \o (IF notice_path_of(e) # None
        THEN << <<>>,
                sNoticeOpen \o basename(notice_path_of(e)) \o <<")">>,
                read_file(notice_path_of(e)) >>
        ELSE <<>>)

Section(e) == strip(join(NL, Header(e) \o << <<>> >> \o Body(e)))

\* A read_file() call of this iteration raises.
SectionRaises(e) ==
    \/ license_path_of(e) # None /\ ReadRaises(license_path_of(e))
    \/ notice_path_of(e) # None /\ ReadRaises(notice_path_of(e))

RenderEntry ==
    /\ pc = "render"
    /\ idx <= Len(unique_entries)
    /\ LET e == unique_entries[idx]
       IN  /\ missing' = AddMissing(missing, e)
           /\ effects' = effects
                  \cup (IF e.path # None THEN {"isdir"} ELSE {})
                  \cup (IF e.path # None /\ isdir(e.path) THEN {"isfile"} ELSE {})
                  \cup (IF license_path_of(e) # None \/ notice_path_of(e) # None
                        THEN {"read"} ELSE {})
           /\ IF SectionRaises(e)
              THEN /\ raised' = "OSError"
                   /\ exitStatus' = 1
                   /\ pc' = "done"
                   /\ UNCHANGED <<sections, idx>>
              ELSE /\ sections' = Append(sections, Section(e))
                   /\ idx' = idx + 1
                   /\ UNCHANGED <<raised, exitStatus, pc>>
    /\ UNCHANGED <<env, pins, entries, unique_entries, content, output, stdio, vlIn, vlOut>>

\* -- main(), lines 165-181: the document, and the check of the missing list ---

\* The document with the sections joined by a rule between single newlines
Document_TightRule(secs) ==
    strip(join(NL, << sTitle, <<>>, sPreamble, <<>>, sDistribute, <<>>, sRule, <<>>,
                      join(<<"\n","-","-","-","\n">>, secs) >>)) \o NL

Document(secs) ==
    strip(join(NL, << sTitle, <<>>, sPreamble, <<>>, sDistribute, <<>>, sRule, <<>>,
                      join(sSectionSep, secs) >>)) \o NL

\* The run failing only when more than one license file is missing
HasMissing_MoreThanOne(m) == Len(m) > 1

\* if missing:
HasMissing(m) == m # <<>>

Finish ==
    /\ pc = "render"
    /\ idx > Len(unique_entries)
    /\ content' = Document(sections)
    /\ IF HasMissing(missing)
       THEN /\ stdio' = stdio \o <<"ERROR: Missing license files for:",
                                   "Hint: run swift package resolve and retry.">>
            /\ exitStatus' = 1
            /\ pc' = "done"
       ELSE /\ pc' = "write"
            /\ UNCHANGED <<stdio, exitStatus>>
    /\ UNCHANGED <<env, pins, entries, unique_entries, idx, missing, sections,
                   output, raised, effects, vlIn, vlOut>>

\* -- main(), lines 183-186: write the file -------------------------------------

WriteOutput ==
    /\ pc = "write"
    /\ effects' = effects \cup {"open_w"}
    /\ IF env.writable
       THEN /\ output' = content
            /\ stdio' = Append(stdio, "[ok] Updated")
            /\ exitStatus' = 0
            /\ UNCHANGED raised
       ELSE /\ raised' = "OSError"
            /\ exitStatus' = 1
            /\ UNCHANGED <<output, stdio>>
    /\ pc' = "done"
    /\ UNCHANGED <<env, pins, entries, unique_entries, idx, missing, sections,
                   content, vlIn, vlOut>>

\* ------------------------------------------------------------------------
\* The runs explored

\* Largest number of pins in the manifest
MaxPins == 2

sYamsUpper == <<"Y","a","m","s">>
sYams == <<"y","a","m","s">>
sSwiftTermLower == <<"s","w","i","f","t","t","e","r","m">>

PinSet ==
    { [identity |-> sYamsUpper,
       location |-> <<"h","t","t","p","s",":","/","/","g",".","c","o","/","y","a","m","s",".","g","i","t">>,
       state |-> [version |-> <<"1",".","2",".","3">>, branch |-> None, revision |-> None]],
      [identity |-> sYams,
       location |-> None,
       state |-> [version |-> None, branch |-> <<"m","a","i","n">>,
                  revision |-> <<"a","b","c","d","e","f","1","2","3","4","5","6","7">>]],
      [identity |-> None,
       location |-> <<"g","/","s","w","i","f","t","t","e","r","m","/">>,
       state |-> EmptyState],
      [identity |-> sSwiftTermLower,
       location |-> <<"h","t","t","p","s",":","/","/","g",".","c","o","/","x",".","g","i","t">>,
       state |-> [version |-> None, branch |-> None, revision |-> <<"a","b","c">>]] }

Manifests ==
    { [kind |-> "absent", pins |-> <<>>], [kind |-> "invalid", pins |-> <<>>] }
    \cup { [kind |-> "valid", pins |-> p] : p \in UNION { [1..n -> PinSet] : n \in 0..MaxPins } }

YamsDir == path_join(sCheckouts, sYams)
SwiftTermCheckout == path_join(sCheckouts, sSwiftTermLower)

NoDir == [exists |-> FALSE, files |-> {}]
Dir(files) == [exists |-> TRUE, files |-> files]

YamsKinds ==
    { NoDir, Dir({}),
      Dir({LICENSE_FILES[2], LICENSE_FILES[4]}),
      Dir({LICENSE_FILES[4], NOTICE_FILES[2], NOTICE_FILES[3]}) }
CheckoutKinds == { NoDir, Dir({LICENSE_FILES[9]}), Dir({NOTICE_FILES[3]}) }
LocalKinds == { NoDir, Dir({}), Dir({LICENSE_FILES[1], NOTICE_FILES[1]}) }

Filesystem(y, c, l) ==
    LET kind(d) == IF d = YamsDir THEN y ELSE IF d = SwiftTermCheckout THEN c ELSE l
    IN  [d \in {dd \in {YamsDir, SwiftTermCheckout, swiftterm_path} : kind(dd).exists}
            |-> kind(d).files]

GitFails == [config |-> None, describe |-> None, rev_parse |-> None]
GitWorlds ==
    { GitFails,
      [config |-> <<"g","i","t","@","h",":","s","t",".","g","i","t","\n">>,
       describe |-> None,
       rev_parse |-> <<"1","a","2","b","3","c","4","\n">>],
      [config |-> <<"\n">>,
       describe |-> <<"v","1",".","0","\n">>,
       rev_parse |-> <<"1","a","2","b","3","c","4","\n">>] }

\* At most one I/O fault in a run: files of the yams checkout that cannot be
\* read, or an output file that cannot be opened for writing.
Faults ==
    { [unreadable |-> {}, writable |-> TRUE],
      [unreadable |-> {YamsDir}, writable |-> TRUE],
      [unreadable |-> {}, writable |-> FALSE] }

PriorOutputs == { None, <<"o","l","d","\n">> }

Envs ==
    { [manifest |-> m, fs |-> Filesystem(y, c, l), git |-> g,
       unreadable |-> f.unreadable, writable |-> f.writable, prior |-> o] :
        m \in Manifests, y \in YamsKinds, c \in CheckoutKinds, l \in LocalKinds,
        g \in GitWorlds, f \in Faults, o \in PriorOutputs }

\* git is only run in an existing local directory: without one its results
\* do not matter and are fixed.
RelevantEnv(e) == swiftterm_path \notin DOMAIN e.fs => e.git = GitFails

Start ==
    /\ pins = <<>>
    /\ entries = <<>>
    /\ unique_entries = <<>>
    /\ idx = 1
    /\ missing = <<>>
    /\ sections = <<>>
    /\ content = None
    /\ exitStatus = -1
    /\ raised = "none"
    /\ stdio = <<>>
    /\ effects = {}

Init ==
    /\ env \in {e \in Envs : RelevantEnv(e)}
    /\ output = env.prior
    /\ pc = "load"
    /\ Start
    /\ vlIn = EmptyState
    /\ vlOut = None

Next ==
    \/ LoadPins
    \/ BuildEntry
    \/ LocalDependency
    \/ Deduplicate
    \/ Sort
    \/ RenderEntry
    \/ Finish
    \/ WriteOutput

Spec == Init /\ [][Next]_vars

\* ------------------------------------------------------------------------
\* version_label on its own, over every shape of state object

VersionValues == { None, <<>>, <<"1",".","2",".","3">>, <<"2",".","0">> }
BranchValues == { None, <<>>, <<"m","a","i","n">> }
RevisionValues ==
    { None, <<>>, <<"a","b","c">>, <<"a","b","c","d","e","f","1">>,
      <<"a","b","c","d","e","f","1","2","3","4","5","6","7">> }

StateObjects == [version : VersionValues, branch : BranchValues, revision : RevisionValues]

InitVL ==
    /\ env = [manifest |-> [kind |-> "absent", pins |-> <<>>], fs |-> Filesystem(NoDir, NoDir, NoDir),
              git |-> GitFails, unreadable |-> {}, writable |-> TRUE, prior |-> None]
    /\ output = None
    /\ pc = "version_label"
    /\ Start
    /\ vlIn \in StateObjects
    /\ vlOut = None

VersionLabel ==
    /\ pc = "version_label"
    /\ vlOut' = version_label(vlIn)
    /\ pc' = "returned"
    /\ UNCHANGED <<env, pins, entries, unique_entries, idx, missing, sections, content,
                   output, exitStatus, raised, stdio, effects, vlIn>>

NextVL == VersionLabel

SpecVL == InitVL /\ [][NextVL]_vars

\* ------------------------------------------------------------------------
\* Properties

Range(seq) == {seq[i] : i \in DOMAIN seq}

Done == pc = "done"

LocalDirExists == swiftterm_path \in DOMAIN env.fs

\* The directory of the entry, read off the filesystem, holds no file with a
\* license file name.
NoLicenseFile(e) ==
    \/ e.path = None
    \/ e.path \notin DOMAIN env.fs
    \/ env.fs[e.path] \cap Range(LICENSE_FILES) = {}

\* A read of a file of the entry's directory fails.
ReadFails(e) ==
    /\ e.path # None
    /\ e.path \in env.unreadable
    /\ e.path \in DOMAIN env.fs
    /\ env.fs[e.path] \cap (Range(LICENSE_FILES) \cup Range(NOTICE_FILES)) # {}

\* Deduplication has run.
Deduplicated == pc \in {"sort", "render", "write"} \/ (Done /\ env.manifest.kind = "valid")

\* The sort has run.
Sorted == pc \in {"render", "write"} \/ (Done /\ env.manifest.kind = "valid")

\* Every entry has been rendered (line 165 was reached).
Rendered == content # None

\* C1: when a deduplicated entry has no license file (the missing list is
\* not empty), the run ends with exit status 1 and the output file is neither
\* opened for writing nor changed, whatever the other entries have.
C1_MissingLicenseBlocksWrite ==
    (Done /\ (missing # <<>> \/ \E i \in DOMAIN unique_entries : NoLicenseFile(unique_entries[i])))
        => /\ exitStatus = 1
           /\ output = env.prior
           /\ "open_w" \notin effects

C1_Witness ==
    /\ Done
    /\ raised = "none"
    /\ exitStatus = 1
    /\ Len(missing) = 1
    /\ Len(unique_entries) >= 2
    /\ \E i \in DOMAIN unique_entries : ~NoLicenseFile(unique_entries[i])
    /\ env.prior # None
    /\ output = env.prior

\* C2: without a manifest the run ends in load_pins with exit status 1: no
\* entry is built, no directory or file is probed, git is not run and the
\* output file is not written.
C2_AbsentManifestExitsFirst ==
    env.manifest.kind = "absent"
        => /\ pc \in {"load", "done"}
           /\ entries = <<>>
           /\ effects = {}
           /\ output = env.prior
           /\ Done => exitStatus = 1 /\ raised = "none"

C2_Witness ==
    /\ Done
    /\ env.manifest.kind = "absent"
    /\ exitStatus = 1
    /\ LocalDirExists
    /\ YamsDir \in DOMAIN env.fs
    /\ stdio = <<"ERROR: Package.resolved not found.">>

LocalFallbacks ==
    \A i \in DOMAIN entries :
        entries[i].path = swiftterm_path
            => /\ entries[i].repo \notin {None, <<>>}
               /\ entries[i].version \notin {None, <<>>}
               /\ env.git = GitFails
                    => entries[i].repo = sSwiftTermUrl /\ entries[i].version = sLocal

C4_FirstEntryOfEachNameKept ==
    Deduplicated =>
        LET key == [k \in DOMAIN entries |-> lower(entries[k].name)]
            first == {k \in DOMAIN entries : \A j \in 1..(k - 1) : key[j] # key[k]}
            ukey == [i \in DOMAIN unique_entries |-> lower(unique_entries[i].name)]
        IN  /\ \A i, j \in DOMAIN unique_entries : i # j => ukey[i] # ukey[j]
            /\ \A k \in first : entries[k] \in Range(unique_entries)
            /\ \A i \in DOMAIN unique_entries : \E k \in first : entries[k] = unique_entries[i]
            /\ pc = "sort" =>
                  \A i, j \in DOMAIN unique_entries :
                      i < j => \E k, l \in first :
                                  /\ k < l
                                  /\ entries[k] = unique_entries[i]
                                  /\ entries[l] = unique_entries[j]

C4_Witness ==
    /\ pc = "sort"
    /\ Len(entries) = 2
    /\ Len(unique_entries) = 1
    /\ lower(entries[1].name) = lower(entries[2].name)
    /\ entries[1].name # entries[2].name
    /\ entries[1].repo # entries[2].repo
    /\ entries[1].version # entries[2].version
    /\ unique_entries[1] = entries[1]

\* The entries with their positions, sorted like the entries.
SortedWithPositions ==
    sort_by_name([k \in DOMAIN entries |-> [name |-> entries[k].name, pos |-> k]])

\* C5: the sections are in ascending order of the entries' lowercase names,
\* and the sort is stable: entries with equal keys keep their order (after
\* deduplication there are none, so this is checked on the list before it).
C5_SectionsInNameOrder ==
    Sorted =>
        LET ukey == [i \in DOMAIN unique_entries |-> lower(unique_entries[i].name)]
            tagged == SortedWithPositions
            tkey == [i \in DOMAIN tagged |-> lower(tagged[i].name)]
        IN  /\ \A i \in 1..(Len(unique_entries) - 1) : ~StrLess(ukey[i + 1], ukey[i])
            /\ Len(sections) <= Len(unique_entries)
            /\ \A i \in DOMAIN sections :
                  startswith(sections[i], Or(unique_entries[i].name, sUnknown) \o <<" ", "(">>)
            /\ \A i, j \in DOMAIN tagged : (i < j /\ tkey[i] = tkey[j]) => tagged[i].pos < tagged[j].pos

C5_Witness ==
    /\ Done
    /\ exitStatus = 0
    /\ Len(sections) = 2
    /\ Len(entries) = 2
    /\ unique_entries[1] = entries[2]
    /\ unique_entries[2] = entries[1]
    /\ StrLess(unique_entries[2].name, unique_entries[1].name)

\* The identities of the manifest's pins, then the name of the local
\* dependency when its directory exists.
SourceNames ==
    [k \in DOMAIN env.manifest.pins |->
        IF env.manifest.pins[k].identity = None THEN <<>> ELSE env.manifest.pins[k].identity]
    \o (IF LocalDirExists THEN <<sSwiftTerm>> ELSE <<>>)

\* The first name of each group of names equal up to case.
DeduplicatedNames ==
    { SourceNames[k] : k \in {n \in DOMAIN SourceNames :
                                \A j \in 1..(n - 1) : lower(SourceNames[j]) # lower(SourceNames[n])} }

\* What precedes " (" on the first line of a section.
RECURSIVE HeaderNameEnd(_, _)
HeaderNameEnd(section, i) ==
    IF i >= Len(section) THEN Len(section)
    ELSE IF section[i] = " " /\ section[i + 1] = "(" THEN i - 1
    ELSE HeaderNameEnd(section, i + 1)

HeaderName(section) == SubSeq(section, 1, HeaderNameEnd(section, 1))

RenderedNames == { HeaderName(sections[i]) : i \in DOMAIN sections }

\* C6 as stated: the names in the rendered sections are exactly the names of
\* the manifest's pins and of the local dependency, deduplicated ignoring case.
C6_RenderedNamesAreSourceNames ==
    (Rendered /\ env.manifest.kind = "valid") => RenderedNames = DeduplicatedNames

\* C6, amended: the names in the rendered sections are the names of the
\* manifest's pins and of the local dependency, deduplicated ignoring case,
\* except that an absent or empty identity is rendered as "unknown"; there is
\* one section for each of these names.
C6_RenderedNamesUpToPlaceholder ==
    (Rendered /\ env.manifest.kind = "valid")
        => /\ RenderedNames = { IF n = <<>> THEN sUnknown ELSE n : n \in DeduplicatedNames }
           /\ Len(sections) = Cardinality(DeduplicatedNames)

C6_Witness ==
    /\ Done
    /\ exitStatus = 0
    /\ output = content
    /\ Len(env.manifest.pins) = 2
    /\ Len(sections) = 2
    /\ LocalDirExists
    /\ sUnknown \in RenderedNames
    /\ sSwiftTermLower \in RenderedNames
    /\ sSwiftTerm \notin RenderedNames

\* s[:n], written out
FirstChars(s, n) == [i \in 1..(IF Len(s) < n THEN Len(s) ELSE n) |-> s[i]]

\* C7: version_label returns a string for every state object, chosen by
\* priority: the version; else branch "@" the first 7 characters of the
\* revision when both are there; else the first 7 characters of the revision;
\* else "unknown".
C7_VersionLabelPriority ==
    pc = "returned" =>
        /\ vlOut # None
        /\ \A i \in DOMAIN vlOut : vlOut[i] \in Range(Ascii)
        /\ vlIn.version # None => vlOut = vlIn.version
        /\ (vlIn.version = None /\ vlIn.branch # None /\ vlIn.revision # None)
              => vlOut = vlIn.branch \o <<"@">> \o FirstChars(vlIn.revision, 7)
        /\ (vlIn.version = None /\ vlIn.branch = None /\ vlIn.revision # None)
              => vlOut = FirstChars(vlIn.revision, 7)
        /\ (vlIn.version = None /\ vlIn.revision = None) => vlOut = sUnknown

C7_Witness ==
    /\ pc = "returned"
    /\ vlIn = [version |-> None, branch |-> <<"m","a","i","n">>,
               revision |-> <<"a","b","c","d","e","f","1","2","3","4","5","6","7">>]
    /\ vlOut = <<"m","a","i","n","@","a","b","c","d","e","f","1">>

\* Every deduplicated entry has a license file.
AllLicensed == \A i \in DOMAIN unique_entries : ~NoLicenseFile(unique_entries[i])

\* The license file name that comes first in LICENSE_FILES among the files
\* of the entry's directory.
FirstLicenseName(e) ==
    LICENSE_FILES[CHOOSE n \in DOMAIN LICENSE_FILES :
                    /\ LICENSE_FILES[n] \in env.fs[e.path]
                    /\ \A m \in 1..(n - 1) : LICENSE_FILES[m] \notin env.fs[e.path]]

\* The three lines every section of a licensed entry begins with.
SectionStart(e) ==
    (IF e.name = <<>> THEN sUnknown ELSE e.name) \o <<" ", "(">>
        \o (IF e.version = <<>> THEN sUnknown ELSE e.version) \o <<")", "\n">>
        \o sRepository \o (IF e.repo = <<>> THEN sUnknown ELSE e.repo) \o <<"\n">>
        \o sLicenseFile \o FirstLicenseName(e) \o <<"\n">>

\* The document holds one section for each deduplicated entry, in their
\* order, each after a "---" rule between blank lines and each beginning
\* with the entry's three header lines, and ends with one newline.
WellFormed(doc) ==
    LET n == Len(doc)
        rules == {i \in 1..(n - Len(sSectionSep) + 1) :
                    SubSeq(doc, i, i + Len(sSectionSep) - 1) = sSectionSep}
        nth(k) == CHOOSE p \in rules : Cardinality({q \in rules : q < p}) = k - 1
    IN  /\ startswith(doc, sTitle \o <<"\n">>)
        /\ Cardinality(rules) = Len(unique_entries)
        /\ \A k \in DOMAIN unique_entries :
              startswith(SubSeq(doc, nth(k) + Len(sSectionSep), n), SectionStart(unique_entries[k]))
        /\ n >= 2
        /\ doc[n] = "\n"
        /\ doc[n - 1] \notin Whitespace

FirstSwiftTermPin ==
    LET hits == {k \in DOMAIN pins :
                    pins[k].identity # None /\ lower(pins[k].identity) = lower(sSwiftTerm)}
    IN  IF hits = {} THEN 0 ELSE CHOOSE k \in hits : \A j \in hits : k <= j

\* C9: the local entry comes after all entries of the manifest, so a pin
\* named "SwiftTerm" up to case wins over it: the entry kept has the pin's
\* name, repo, version and checkout path, and the local entry, with its
\* directory, is dropped.
C9_ManifestPinBeatsLocalEntry ==
    /\ (pc \notin {"load", "build"} /\ env.manifest.kind = "valid" /\ LocalDirExists)
          => /\ Len(entries) = Len(pins) + 1
             /\ entries[Len(entries)].name = sSwiftTerm
             /\ entries[Len(entries)].path = swiftterm_path
    /\ (Deduplicated /\ LocalDirExists /\ FirstSwiftTermPin # 0)
          => LET pin == pins[FirstSwiftTermPin]
                 kept == {i \in DOMAIN unique_entries :
                            lower(unique_entries[i].name) = lower(sSwiftTerm)}
             IN  /\ Cardinality(kept) = 1
                 /\ \A i \in kept :
                       /\ unique_entries[i].name = pin.identity
                       /\ unique_entries[i].repo = (IF pin.location = None THEN <<>> ELSE pin.location)
                       /\ unique_entries[i].path # swiftterm_path
                       /\ \/ unique_entries[i].path = None
                          \/ startswith(unique_entries[i].path, sCheckouts \o <<"/">>)
                       /\ unique_entries[i].version = version_label(pin.state)
                 /\ \A i \in DOMAIN unique_entries : unique_entries[i].path # swiftterm_path

C9_Witness ==
    /\ Done
    /\ LocalDirExists
    /\ FirstSwiftTermPin = 2
    /\ Len(entries) = 3
    /\ Len(unique_entries) = 2
    /\ ~NoLicenseFile(entries[3])
    /\ NoLicenseFile(entries[2])
    /\ exitStatus = 1

\* C10: the missing list holds exactly the deduplicated entries whose
\* checkout directory is unresolved or holds no license file. An unresolved
\* directory alone makes the run end with exit status 1, an entry dropped as
\* a duplicate never does, and exit status 0 means that every entry kept has
\* a directory with a license file in it.
C10_MissingIsUnlicensedKept ==
    /\ (pc = "render" \/ Rendered) =>
          LET done == IF Rendered THEN Len(unique_entries) ELSE idx - 1
              unlicensed == {i \in 1..done : NoLicenseFile(unique_entries[i])}
          IN  /\ Len(missing) = Cardinality(unlicensed)
              /\ Range(missing) = { IF unique_entries[i].name = <<>> THEN sUnknown
                                    ELSE unique_entries[i].name : i \in unlicensed }
    /\ (Done /\ \E i \in DOMAIN unique_entries : unique_entries[i].path = None)
          => exitStatus = 1
    /\ (Done /\ exitStatus = 0)
          => \A i \in DOMAIN unique_entries :
                /\ unique_entries[i].path \in DOMAIN env.fs
                /\ \E f \in Range(LICENSE_FILES) : f \in env.fs[unique_entries[i].path]

C10_Witness ==
    /\ Done
    /\ exitStatus = 0
    /\ Len(entries) = 3
    /\ Len(unique_entries) = 2
    /\ NoLicenseFile(entries[3])
    /\ entries[3] \notin Range(unique_entries)

C10_WitnessUnresolved ==
    /\ Done
    /\ exitStatus = 1
    /\ raised = "none"
    /\ Len(unique_entries) = 2
    /\ Len(missing) = 1
    /\ \E i \in DOMAIN unique_entries :
          unique_entries[i].path = None /\ missing = <<unique_entries[i].name>>

====
